---- MODULE Spec2Model ----
(***************************************************************************)
(* Model of taskiq's worker: src/taskiq/cli/async_task_runner.py.          *)
(*                                                                         *)
(* One asyncio event loop runs in the main thread.  The coroutine          *)
(* async_listen_messages is the worker task; every signal handled by       *)
(* signal_handler._handler creates one more task, broker.shutdown(), whose *)
(* done-callback is exit_process.  Python-level signal handlers run in the *)
(* main thread between two bytecodes of whatever is running there, also    *)
(* between two bytecodes of another signal handler, so handler invocations *)
(* nest: hstack is the stack of handler invocations in progress, and the   *)
(* event loop makes no step while it is not empty.                         *)
(***************************************************************************)
EXTENDS Integers, Sequences, FiniteSets, TLC

\* ------------------------------------------------------------------ bounds
\* Number of messages broker.listen() yields before the model stops it.
MaxMsgs == 2
\* Number of middlewares registered in broker.middlewares.
NumMiddlewares == 2
\* Number of signal handler invocations that may be in progress at once (a
\* signal delivered while a handler runs nests a new invocation in it); the
\* number of signals delivered over time is not bounded.
MaxNesting == 2
\* Largest number of positional arguments of an invocation given to
\* parse_params on its own.
MaxArgs == 2

\* ------------------------------------------------------------------ values
\* Python values carried by a message: int, str, None; Absent marks a
\* keyword that the kwargs dict does not hold.
IntV(n) == [k |-> "int", n |-> n]
StrV(s) == [k |-> "str", s |-> s]
None == [k |-> "none"]
Absent == [k |-> "absent"]

KwNames == {"a", "b", "x", "y"}
NoKwargs == [n \in KwNames |-> Absent]

\* int(s) for the strings of the model; "x" is no number.
IsNumeric(s) == s \in {"2", "3", "5"}
IntOfStr(s) == CASE s = "2" -> 2 [] s = "3" -> 3 [] s = "5" -> 5 [] OTHER -> 0
StrOfInt(n) == CASE n = 2 -> "2" [] n = 3 -> "3" [] n = 5 -> "5" [] OTHER -> "0"

\* pydantic.parse_obj_as(annot, value): the converted value, or a
\* ValidationError (a ValueError) when the value cannot be converted.
CanParse(annot, v) ==
    CASE annot = "int" -> v.k = "int" \/ (v.k = "str" /\ IsNumeric(v.s))
      [] annot = "str" -> v.k \in {"int", "str"}
      [] OTHER -> FALSE
parse_obj_as(annot, v) ==
    CASE annot = "int" /\ v.k = "str" -> IntV(IntOfStr(v.s))
      [] annot = "str" /\ v.k = "int" -> StrV(StrOfInt(v.n))
      [] OTHER -> v

\* ------------------------------------------------------------ the registry
\* broker.available_tasks: task name -> the parameters of original_func, in
\* the order of inspect.signature; annot "empty" is Parameter.empty.
Param(name, annot) == [name |-> name, annot |-> annot]
available_tasks ==
    [t \in {"add", "mixed"} |->
        IF t = "add" THEN << Param("a", "int"), Param("b", "int") >>
                     ELSE << Param("x", "empty"), Param("y", "int") >>]

\* ------------------------------------------------------------ parse_params
\* The loop of parse_params over signature.parameters: i is the index of the
\* parameter, argnum the counter the code advances only for annotated
\* parameters.
RECURSIVE ParseLoop(_, _, _, _, _)
ParseLoop(params, i, argnum, args, kwargs) ==
    IF i > Len(params) THEN [args |-> args, kwargs |-> kwargs]
    ELSE LET p == params[i] IN
         IF p.annot = "empty"
         THEN ParseLoop(params, i + 1, argnum, args, kwargs)
         ELSE LET an == argnum + 1 IN
              \* argnum counts from 0 in the code: position an here is
              \* message.args[an - 1] there.
              IF an > Len(args)
              THEN LET value == kwargs[p.name] IN
                   IF value.k \in {"none", "absent"}
                   THEN ParseLoop(params, i + 1, an, args, kwargs)
                   ELSE IF CanParse(p.annot, value)
                        THEN ParseLoop(params, i + 1, an, args,
                                 [kwargs EXCEPT ![p.name] = parse_obj_as(p.annot, value)])
                        ELSE ParseLoop(params, i + 1, an, args, kwargs)
              ELSE LET value == args[an] IN
                   IF value.k = "none"
                   THEN ParseLoop(params, i + 1, an, args, kwargs)
                   ELSE IF CanParse(p.annot, value)
                        THEN ParseLoop(params, i + 1, an,
                                 [args EXCEPT ![an] = parse_obj_as(p.annot, value)], kwargs)
                        ELSE ParseLoop(params, i + 1, an, args, kwargs)

\* parse_params(signature, message): the message with its args and kwargs
\* replaced in place; sig.none says that the signature is None.
parse_params(sig, m) ==
    IF sig.none THEN m
    ELSE LET r == ParseLoop(sig.params, 1, 0, m.args, m.kwargs)
         IN [m EXCEPT !.args = r.args, !.kwargs = r.kwargs]

\* ------------------------------------------------------------------- state
VARIABLES
    no_parse,         \* cli_args.no_parse
    pc,               \* where the worker task (async_listen_messages) stands
    idx,              \* number of messages broker.listen() has yielded
    message,          \* the raw message of the current iteration
    taskiq_msg,       \* the decoded message, as the hooks and coercion left it
    mw,               \* index of the middleware the current for loop is at
    returned,         \* run_task's local: what the handler returned
    found_exception,  \* run_task's local: whether the handler raised
    result,           \* the TaskiqResult of the current iteration
    logOpen,          \* whether a log_collector scope is open
    h,                \* what was called for the current message (observation)
    flag,             \* broker._is_shutting_down
    hstack,           \* the signal handler invocations in progress, innermost last
    tasks,            \* number of broker.shutdown() tasks pending, returned, raised
    proc,             \* "running", or "exited" once sys.exit was called
    exitcode,         \* the status sys.exit was called with
    exitCalls,        \* number of sys.exit calls
    cancelled         \* the tasks exit_process called cancel() on

workerVars == << no_parse, pc, idx, message, taskiq_msg, mw, returned,
                 found_exception, result, logOpen, h >>
shutdownVars == << flag, hstack, tasks, proc, exitcode, exitCalls, cancelled >>
vars == << no_parse, pc, idx, message, taskiq_msg, mw, returned,
           found_exception, result, logOpen, h,
           flag, hstack, tasks, proc, exitcode, exitCalls, cancelled >>

\* The raw messages broker.listen() may yield; the task_id is set by Recv.
Raw(name, ok, args, kwargs) ==
    [task_name |-> name, task_id |-> 0, decodable |-> ok, args |-> args, kwargs |-> kwargs]
RawMessages ==
    { Raw("mixed", TRUE, << StrV("5"), StrV("x") >>, NoKwargs),
      Raw("add", FALSE, << >>, NoKwargs),
      Raw("ghost", TRUE, << StrV("2") >>, NoKwargs) }

NoMessage == Raw("", FALSE, << >>, NoKwargs)
NoInvocation ==
    [task_name |-> "", task_id |-> 0, args |-> << >>, kwargs |-> NoKwargs, labels |-> << >>]
NoResult == [is_err |-> FALSE, return_value |-> None, made |-> FALSE]
\* What the handler of a task may return.
RetVals == { None, IntV(5) }

EmptyHist ==
    [ preIn |-> << >>, preOut |-> << >>, runMsg |-> << >>, callArgs |-> << >>,
      outcome |-> << >>, results |-> << >>, errLog |-> << >>, errDone |-> << >>,
      postLog |-> << >>, postDone |-> << >>, setLog |-> << >>, setDone |-> << >>,
      fail |-> "", prev |-> "none" ]

\* How the iteration that h describes ended, once the loop is back at the
\* async for: by the continue of an unknown task or of a decode error, or
\* after set_result returned ("stored") or raised ("unstored"); "open" when
\* the await of set_result has not completed.
Ended(m, hist) ==
    IF m.task_name \notin DOMAIN available_tasks THEN "unknown"
    ELSE IF ~m.decodable THEN "undecodable"
    ELSE IF hist.setDone = << "raised" >> THEN "unstored"
    ELSE IF hist.setDone = << "stored" >> THEN "stored"
    ELSE "open"

\* broker.formatter.loads(message) when it does not raise.
loads(m) ==
    [task_name |-> m.task_name, task_id |-> m.task_id, args |-> m.args,
     kwargs |-> m.kwargs, labels |-> << >>]

\* Faulty variant of Signature: the signatures are computed whatever
\* cli_args.no_parse says.
Signature_IgnoresNoParse(name) ==
    IF name \notin DOMAIN available_tasks
    THEN [none |-> TRUE, params |-> << >>]
    ELSE [none |-> FALSE, params |-> available_tasks[name]]

\* task_signatures.get(name): filled at startup unless cli_args.no_parse.
Signature(name) ==
    IF no_parse \/ name \notin DOMAIN available_tasks
    THEN [none |-> TRUE, params |-> << >>]
    ELSE [none |-> FALSE, params |-> available_tasks[name]]

\* A pre_execute hook that rewrites the message: it adds its label.
Tag(m, k) == [m EXCEPT !.labels = Append(@, k)]

\* Faulty variant of TaskiqResult: is_err taken from the returned value.
TaskiqResult_ErrIfNone(fe, ret) == [is_err |-> ret = None, return_value |-> ret, made |-> TRUE]

\* TaskiqResult(is_err=found_exception is not None, return_value=returned).
TaskiqResult(fe, ret) == [is_err |-> fe, return_value |-> ret, made |-> TRUE]

\* The worker task runs only while the main thread is in no signal handler.
MainRuns == proc = "running" /\ hstack = << >>

Init ==
    /\ no_parse \in BOOLEAN
    /\ pc = "recv"
    /\ idx = 0
    /\ message = NoMessage
    /\ taskiq_msg = NoInvocation
    /\ mw = 1
    /\ returned = None
    /\ found_exception = FALSE
    /\ result = NoResult
    /\ logOpen = FALSE
    /\ h = EmptyHist
    /\ flag = FALSE
    /\ hstack = << >>
    /\ tasks = [pending |-> 0, returned |-> 0, raised |-> 0]
    /\ proc = "running"
    /\ exitcode = 0
    /\ exitCalls = 0
    /\ cancelled = [worker |-> FALSE, shutdown |-> 0]

\* ------------------------------------------------- async_listen_messages
\* async for message in broker.listen(): the stream yields a message.
Recv ==
    /\ MainRuns /\ pc = "recv" /\ idx < MaxMsgs
    /\ \E m \in RawMessages :
          message' = [m EXCEPT !.task_id = idx + 1]
    /\ idx' = idx + 1
    /\ h' = [EmptyHist EXCEPT !.prev = IF idx = 0 THEN "none" ELSE Ended(message, h)]
    /\ pc' = "lookup"
    /\ UNCHANGED << no_parse, taskiq_msg, mw, returned, found_exception, result, logOpen >>
    /\ UNCHANGED shutdownVars

\* The stream ends: the async for is left and the coroutine returns.
StreamEnd ==
    /\ MainRuns /\ pc = "recv"
    /\ pc' = "done"
    /\ UNCHANGED << no_parse, idx, message, taskiq_msg, mw, returned, found_exception, result, logOpen, h >>
    /\ UNCHANGED shutdownVars

\* Faulty variant of Lookup: the check of available_tasks is missing.
Lookup_NoCheck ==
    /\ MainRuns /\ pc = "lookup"
    /\ pc' = "decode"
    /\ UNCHANGED << no_parse, idx, message, taskiq_msg, mw, returned, found_exception, result, logOpen, h >>
    /\ UNCHANGED shutdownVars

\* if message.task_name not in broker.available_tasks: continue
Lookup ==
    /\ MainRuns /\ pc = "lookup"
    /\ pc' = IF message.task_name \notin DOMAIN available_tasks THEN "recv" ELSE "decode"
    /\ UNCHANGED << no_parse, idx, message, taskiq_msg, mw, returned, found_exception, result, logOpen, h >>
    /\ UNCHANGED shutdownVars

\* Faulty variant of Decode: no try/except around formatter.loads.
Decode_Uncaught ==
    /\ MainRuns /\ pc = "decode"
    /\ IF message.decodable
       THEN /\ taskiq_msg' = loads(message)
            /\ mw' = 1
            /\ pc' = IF NumMiddlewares = 0 THEN "parse" ELSE "pre_call"
       ELSE /\ pc' = "crashed"
            /\ UNCHANGED << taskiq_msg, mw >>
    /\ UNCHANGED << no_parse, idx, message, returned, found_exception, result, logOpen, h >>
    /\ UNCHANGED shutdownVars

\* taskiq_msg = broker.formatter.loads(message); except Exception: continue
Decode ==
    /\ MainRuns /\ pc = "decode"
    /\ IF message.decodable
       THEN /\ taskiq_msg' = loads(message)
            /\ mw' = 1
            /\ pc' = IF NumMiddlewares = 0 THEN "parse" ELSE "pre_call"
       ELSE /\ pc' = "recv"
            /\ UNCHANGED << taskiq_msg, mw >>
    /\ UNCHANGED << no_parse, idx, message, returned, found_exception, result, logOpen, h >>
    /\ UNCHANGED shutdownVars

\* middleware.pre_execute(taskiq_msg) is called for middleware mw.
PreCall ==
    /\ MainRuns /\ pc = "pre_call"
    /\ h' = [h EXCEPT !.preIn = Append(@, [mw |-> mw, msg |-> taskiq_msg])]
    /\ pc' = "pre_await"
    /\ UNCHANGED << no_parse, idx, message, taskiq_msg, mw, returned, found_exception, result, logOpen >>
    /\ UNCHANGED shutdownVars

\* Faulty variant of PreDone: the message pre_execute returns is dropped.
PreDone_DropsReturn ==
    /\ MainRuns /\ pc = "pre_await"
    /\ \E out \in { taskiq_msg, Tag(taskiq_msg, mw) } :
          h' = [h EXCEPT !.preOut = Append(@, out)]
    /\ IF mw < NumMiddlewares
       THEN mw' = mw + 1 /\ pc' = "pre_call"
       ELSE mw' = 1 /\ pc' = "parse"
    /\ UNCHANGED << no_parse, idx, message, taskiq_msg, returned, found_exception, result, logOpen >>
    /\ UNCHANGED shutdownVars

\* taskiq_msg = await maybe_awaitable(...): the hook returns a message.
PreDone ==
    /\ MainRuns /\ pc = "pre_await"
    /\ \E out \in { taskiq_msg, Tag(taskiq_msg, mw) } :
          /\ taskiq_msg' = out
          /\ h' = [h EXCEPT !.preOut = Append(@, out)]
    /\ IF mw < NumMiddlewares
       THEN mw' = mw + 1 /\ pc' = "pre_call"
       ELSE mw' = 1 /\ pc' = "parse"
    /\ UNCHANGED << no_parse, idx, message, returned, found_exception, result, logOpen >>
    /\ UNCHANGED shutdownVars

\* The pre_execute hook raises: nothing catches it, the coroutine ends.
PreRaise ==
    /\ MainRuns /\ pc = "pre_await"
    /\ h' = [h EXCEPT !.fail = "pre_execute"]
    /\ pc' = "crashed"
    /\ UNCHANGED << no_parse, idx, message, taskiq_msg, mw, returned, found_exception, result, logOpen >>
    /\ UNCHANGED shutdownVars

\* ---------------------------------------------------------------- run_task
\* run_task is entered: returned = None, found_exception = None, then
\* parse_params(signature, message) coerces the message in place.
RunParse ==
    /\ MainRuns /\ pc = "parse"
    /\ h' = [h EXCEPT !.runMsg = Append(@, taskiq_msg)]
    /\ returned' = None
    /\ found_exception' = FALSE
    /\ taskiq_msg' = parse_params(Signature(message.task_name), taskiq_msg)
    /\ pc' = "open_log"
    /\ UNCHANGED << no_parse, idx, message, mw, result, logOpen >>
    /\ UNCHANGED shutdownVars

\* with log_collector(logs, log_collector_format): the scope is entered.
OpenLog ==
    /\ MainRuns /\ pc = "open_log"
    /\ logOpen' = TRUE
    /\ pc' = "call"
    /\ UNCHANGED << no_parse, idx, message, taskiq_msg, mw, returned, found_exception, result, h >>
    /\ UNCHANGED shutdownVars

\* target(*message.args, **message.kwargs) starts, awaited directly or
\* through loop.run_in_executor(executor, run_sync, target, message).
HandlerCall ==
    /\ MainRuns /\ pc = "call"
    /\ h' = [h EXCEPT !.callArgs = Append(@, [args |-> taskiq_msg.args,
                                              kwargs |-> taskiq_msg.kwargs,
                                              log |-> logOpen])]
    /\ pc' = "running"
    /\ UNCHANGED << no_parse, idx, message, taskiq_msg, mw, returned, found_exception, result, logOpen >>
    /\ UNCHANGED shutdownVars

\* The handler returns a value.
HandlerReturn ==
    /\ MainRuns /\ pc = "running"
    /\ \E v \in RetVals :
          /\ returned' = v
          /\ h' = [h EXCEPT !.outcome = Append(@, [raised |-> FALSE, value |-> v])]
    /\ pc' = "close_log"
    /\ UNCHANGED << no_parse, idx, message, taskiq_msg, mw, found_exception, result, logOpen >>
    /\ UNCHANGED shutdownVars

\* The handler raises an Exception: except Exception as exc stores it; the
\* except clause and its logger.error run inside the with statement.
HandlerRaise ==
    /\ MainRuns /\ pc = "running"
    /\ found_exception' = TRUE
    /\ h' = [h EXCEPT !.outcome = Append(@, [raised |-> TRUE, value |-> None])]
    /\ pc' = "close_log"
    /\ UNCHANGED << no_parse, idx, message, taskiq_msg, mw, returned, result, logOpen >>
    /\ UNCHANGED shutdownVars

\* Faulty variant of HandlerRaiseBase: the scope is opened and closed by
\* hand, and an exception that is not caught skips the closing.
HandlerRaiseBase_LeavesOpen ==
    /\ MainRuns /\ pc = "running"
    /\ h' = [h EXCEPT !.outcome = Append(@, [raised |-> TRUE, value |-> None]),
                       !.fail = "handler"]
    /\ pc' = "crashed"
    /\ UNCHANGED << no_parse, idx, message, taskiq_msg, mw, returned, found_exception, result, logOpen >>
    /\ UNCHANGED shutdownVars

\* The handler raises a BaseException that is no Exception (SystemExit,
\* KeyboardInterrupt, CancelledError): the with statement closes the scope
\* and the exception leaves run_task and async_listen_messages.
HandlerRaiseBase ==
    /\ MainRuns /\ pc = "running"
    /\ h' = [h EXCEPT !.outcome = Append(@, [raised |-> TRUE, value |-> None]),
                       !.fail = "handler"]
    /\ logOpen' = FALSE
    /\ pc' = "crashed"
    /\ UNCHANGED << no_parse, idx, message, taskiq_msg, mw, returned, found_exception, result >>
    /\ UNCHANGED shutdownVars

\* execution_time is taken and the with statement is left.
CloseLog ==
    /\ MainRuns /\ pc = "close_log"
    /\ logOpen' = FALSE
    /\ pc' = "build"
    /\ UNCHANGED << no_parse, idx, message, taskiq_msg, mw, returned, found_exception, result, h >>
    /\ UNCHANGED shutdownVars

\* result = TaskiqResult(...); if found_exception is not None the on_error
\* loop follows, else run_task returns and the post_execute loop follows.
BuildResult ==
    /\ MainRuns /\ pc = "build"
    /\ result' = TaskiqResult(found_exception, returned)
    /\ h' = [h EXCEPT !.results = Append(@, TaskiqResult(found_exception, returned))]
    /\ mw' = 1
    /\ pc' = IF NumMiddlewares = 0 THEN "set_call"
             ELSE IF found_exception THEN "err_call" ELSE "post_call"
    /\ UNCHANGED << no_parse, idx, message, taskiq_msg, returned, found_exception, logOpen >>
    /\ UNCHANGED shutdownVars

\* middleware.on_error(message, result, found_exception) is called.
ErrCall ==
    /\ MainRuns /\ pc = "err_call"
    /\ h' = [h EXCEPT !.errLog = Append(@, [mw |-> mw, msg |-> taskiq_msg, result |-> result])]
    /\ pc' = "err_await"
    /\ UNCHANGED << no_parse, idx, message, taskiq_msg, mw, returned, found_exception, result, logOpen >>
    /\ UNCHANGED shutdownVars

\* await maybe_awaitable(middleware.on_error(...)) completes.
ErrDone ==
    /\ MainRuns /\ pc = "err_await"
    /\ h' = [h EXCEPT !.errDone = Append(@, mw)]
    /\ IF mw < NumMiddlewares
       THEN mw' = mw + 1 /\ pc' = "err_call"
       ELSE mw' = 1 /\ pc' = "post_call"
    /\ UNCHANGED << no_parse, idx, message, taskiq_msg, returned, found_exception, result, logOpen >>
    /\ UNCHANGED shutdownVars

\* The on_error hook raises: the exception leaves run_task and then
\* async_listen_messages.
ErrRaise ==
    /\ MainRuns /\ pc = "err_await"
    /\ h' = [h EXCEPT !.fail = "on_error"]
    /\ pc' = "crashed"
    /\ UNCHANGED << no_parse, idx, message, taskiq_msg, mw, returned, found_exception, result, logOpen >>
    /\ UNCHANGED shutdownVars

\* ------------------------------------- async_listen_messages, after run_task
\* middleware.post_execute(taskiq_msg, result) is called.
PostCall ==
    /\ MainRuns /\ pc = "post_call"
    /\ h' = [h EXCEPT !.postLog = Append(@, [mw |-> mw, msg |-> taskiq_msg, result |-> result])]
    /\ pc' = "post_await"
    /\ UNCHANGED << no_parse, idx, message, taskiq_msg, mw, returned, found_exception, result, logOpen >>
    /\ UNCHANGED shutdownVars

\* Faulty variant of PostDone: set_result follows the first post_execute
\* hook, the other middlewares' hooks are not run before it.
PostDone_SkipsRest ==
    /\ MainRuns /\ pc = "post_await"
    /\ h' = [h EXCEPT !.postDone = Append(@, mw)]
    /\ mw' = 1 /\ pc' = "set_call"
    /\ UNCHANGED << no_parse, idx, message, taskiq_msg, returned, found_exception, result, logOpen >>
    /\ UNCHANGED shutdownVars

\* await maybe_awaitable(middleware.post_execute(...)) completes.
PostDone ==
    /\ MainRuns /\ pc = "post_await"
    /\ h' = [h EXCEPT !.postDone = Append(@, mw)]
    /\ IF mw < NumMiddlewares
       THEN mw' = mw + 1 /\ pc' = "post_call"
       ELSE mw' = 1 /\ pc' = "set_call"
    /\ UNCHANGED << no_parse, idx, message, taskiq_msg, returned, found_exception, result, logOpen >>
    /\ UNCHANGED shutdownVars

\* The post_execute hook raises: nothing catches it, the coroutine ends.
PostRaise ==
    /\ MainRuns /\ pc = "post_await"
    /\ h' = [h EXCEPT !.fail = "post_execute"]
    /\ pc' = "crashed"
    /\ UNCHANGED << no_parse, idx, message, taskiq_msg, mw, returned, found_exception, result, logOpen >>
    /\ UNCHANGED shutdownVars

\* Faulty variant of SetCall: set_result is started and not awaited, the
\* loop goes on to the next message.
SetCall_NotAwaited ==
    /\ MainRuns /\ pc = "set_call"
    /\ h' = [h EXCEPT !.setLog = Append(@, [task_id |-> message.task_id, result |-> result])]
    /\ pc' = "recv"
    /\ UNCHANGED << no_parse, idx, message, taskiq_msg, mw, returned, found_exception, result, logOpen >>
    /\ UNCHANGED shutdownVars

\* broker.result_backend.set_result(message.task_id, result) is called.
SetCall ==
    /\ MainRuns /\ pc = "set_call"
    /\ h' = [h EXCEPT !.setLog = Append(@, [task_id |-> message.task_id, result |-> result])]
    /\ pc' = "set_await"
    /\ UNCHANGED << no_parse, idx, message, taskiq_msg, mw, returned, found_exception, result, logOpen >>
    /\ UNCHANGED shutdownVars

\* await set_result(...) completes: the next iteration of the async for.
SetDone ==
    /\ MainRuns /\ pc = "set_await"
    /\ h' = [h EXCEPT !.setDone = Append(@, "stored")]
    /\ pc' = "recv"
    /\ UNCHANGED << no_parse, idx, message, taskiq_msg, mw, returned, found_exception, result, logOpen >>
    /\ UNCHANGED shutdownVars

\* Faulty variant of SetRaise: set_result's exception is not caught.
SetRaise_Uncaught ==
    /\ MainRuns /\ pc = "set_await"
    /\ h' = [h EXCEPT !.setDone = Append(@, "raised")]
    /\ pc' = "crashed"
    /\ UNCHANGED << no_parse, idx, message, taskiq_msg, mw, returned, found_exception, result, logOpen >>
    /\ UNCHANGED shutdownVars

\* set_result raises an Exception: logger.exception, then the next iteration.
SetRaise ==
    /\ MainRuns /\ pc = "set_await"
    /\ h' = [h EXCEPT !.setDone = Append(@, "raised")]
    /\ pc' = "recv"
    /\ UNCHANGED << no_parse, idx, message, taskiq_msg, mw, returned, found_exception, result, logOpen >>
    /\ UNCHANGED shutdownVars

\* ------------------------------------------------ signal_handler._handler
\* SIGTERM or SIGINT is delivered: the interpreter starts _handler in the
\* main thread, on top of whatever runs there.
SignalDeliver ==
    /\ proc = "running" /\ Len(hstack) < MaxNesting
    /\ hstack' = Append(hstack, "check")
    /\ UNCHANGED << flag, tasks, proc, exitcode, exitCalls, cancelled >>
    /\ UNCHANGED workerVars

Top == hstack[Len(hstack)]
Pop == SubSeq(hstack, 1, Len(hstack) - 1)

\* Faulty variant of HandlerCheck: the flag is not looked at.
HandlerCheck_IgnoresFlag ==
    /\ proc = "running" /\ hstack # << >> /\ Top = "check"
    /\ hstack' = [hstack EXCEPT ![Len(hstack)] = "set"]
    /\ UNCHANGED << flag, tasks, proc, exitcode, exitCalls, cancelled >>
    /\ UNCHANGED workerVars

\* if getattr(broker, "_is_shutting_down", False): return
HandlerCheck ==
    /\ proc = "running" /\ hstack # << >> /\ Top = "check"
    /\ hstack' = IF flag THEN Pop ELSE [hstack EXCEPT ![Len(hstack)] = "set"]
    /\ UNCHANGED << flag, tasks, proc, exitcode, exitCalls, cancelled >>
    /\ UNCHANGED workerVars

\* Faulty variant of HandlerSchedule: the handler cancels the worker task
\* itself, at the signal, before broker.shutdown() has run.
HandlerSchedule_CancelsFirst ==
    /\ proc = "running" /\ hstack # << >> /\ Top = "set"
    /\ flag' = TRUE
    /\ tasks' = [tasks EXCEPT !.pending = @ + 1]
    /\ hstack' = Pop
    /\ cancelled' = [cancelled EXCEPT !.worker = pc \notin { "done", "crashed" }]
    /\ UNCHANGED << proc, exitcode, exitCalls >>
    /\ UNCHANGED workerVars

\* broker._is_shutting_down = True
\* task = asyncio.create_task(broker.shutdown())
\* task.add_done_callback(exit_process)
HandlerSchedule ==
    /\ proc = "running" /\ hstack # << >> /\ Top = "set"
    /\ flag' = TRUE
    /\ tasks' = [tasks EXCEPT !.pending = @ + 1]
    /\ hstack' = Pop
    /\ UNCHANGED << proc, exitcode, exitCalls, cancelled >>
    /\ UNCHANGED workerVars

\* ------------------------------------------------------------ the event loop
\* The worker task is suspended in an await, or has ended: only then does the
\* loop run another task or a callback.
SuspendPcs == { "recv", "pre_await", "running", "err_await", "post_await",
                "set_await", "done", "crashed" }
LoopRuns == MainRuns /\ pc \in SuspendPcs

\* Number of broker.shutdown() tasks created so far.
Scheduled == tasks.pending + tasks.returned + tasks.raised

\* A broker.shutdown() task completes by returning.
ShutdownReturn ==
    /\ LoopRuns /\ tasks.pending > 0
    /\ tasks' = [tasks EXCEPT !.pending = @ - 1, !.returned = @ + 1]
    /\ UNCHANGED << flag, hstack, proc, exitcode, exitCalls, cancelled >>
    /\ UNCHANGED workerVars

\* A broker.shutdown() task completes by raising.
ShutdownRaise ==
    /\ LoopRuns /\ tasks.pending > 0
    /\ tasks' = [tasks EXCEPT !.pending = @ - 1, !.raised = @ + 1]
    /\ UNCHANGED << flag, hstack, proc, exitcode, exitCalls, cancelled >>
    /\ UNCHANGED workerVars

\* asyncio.all_tasks(loop): the tasks that are not done, the worker task and
\* the pending broker.shutdown() tasks.
all_tasks ==
    [ worker |-> pc \notin { "done", "crashed" }, shutdown |-> tasks.pending ]

\* Faulty variant of exit_process: the outcome of task.result() is ignored.
exit_process_AlwaysZero(outcome) ==
    /\ exitcode' = 0
    /\ cancelled' = all_tasks
    /\ exitCalls' = exitCalls + 1
    /\ proc' = "exited"

\* Faulty variant of exit_process: task.result() stands in no try block, its
\* exception leaves the callback before sys.exit.
exit_process_NoTry(outcome) ==
    /\ outcome = "returned"
    /\ exitcode' = 0
    /\ cancelled' = all_tasks
    /\ exitCalls' = exitCalls + 1
    /\ proc' = "exited"

\* exit_process(task), the done-callback of a completed shutdown task; outcome
\* is how the task completed: exitcode from task.result(), cancel() on every
\* task of the loop, sys.exit(exitcode).
exit_process(outcome) ==
    /\ exitcode' = IF outcome = "raised" THEN 1 ELSE 0
    /\ cancelled' = all_tasks
    /\ exitCalls' = exitCalls + 1
    /\ proc' = "exited"

ExitProcess ==
    /\ LoopRuns
    /\ \E outcome \in { "returned", "raised" } :
          /\ tasks[outcome] > 0
          /\ exit_process(outcome)
    /\ UNCHANGED << flag, hstack, tasks >>
    /\ UNCHANGED workerVars

\* ------------------------------------------------------------ specification
Next ==
    \/ Recv \/ StreamEnd \/ Lookup \/ Decode
    \/ PreCall \/ PreDone \/ PreRaise
    \/ RunParse \/ OpenLog \/ HandlerCall
    \/ HandlerReturn \/ HandlerRaise \/ HandlerRaiseBase
    \/ CloseLog \/ BuildResult
    \/ ErrCall \/ ErrDone \/ ErrRaise
    \/ PostCall \/ PostDone \/ PostRaise
    \/ SetCall \/ SetDone \/ SetRaise
    \/ SignalDeliver \/ HandlerCheck \/ HandlerSchedule
    \/ ShutdownReturn \/ ShutdownRaise \/ ExitProcess

Spec == Init /\ [][Next]_vars

\* The done-callback of a completed task is put on the loop's ready queue
\* (add_done_callback, call_soon), which the loop serves first in first out:
\* a callback that is ready whenever the loop gets to run is run.
LiveSpec == Spec /\ SF_vars(ExitProcess)

\* --------------------------------------------- parse_params on its own
\* The invocations parse_params is applied to: a registered task, up to
\* MaxArgs positional arguments and any keyword arguments under the names of
\* the task's parameters.
ArgVals == { StrV("2"), StrV("x"), IntV(3), None }
ArgSeqs == UNION { [1 .. n -> ArgVals] : n \in 0 .. MaxArgs }
ParamNames(t) == { available_tasks[t][i].name : i \in DOMAIN available_tasks[t] }
KwargsOf(t) ==
    { kw \in [KwNames -> ArgVals \cup { Absent }] :
         \A n \in KwNames \ ParamNames(t) : kw[n] = Absent }

\* run_task is about to be entered with an invocation of task t; the
\* signatures were computed (no_parse is not set).
ParseInit ==
    /\ no_parse = FALSE
    /\ pc = "parse"
    /\ idx = 1
    /\ \E t \in DOMAIN available_tasks, args \in ArgSeqs :
          \E kw \in KwargsOf(t) :
             /\ message = [Raw(t, TRUE, args, kw) EXCEPT !.task_id = 1]
             /\ taskiq_msg = loads([Raw(t, TRUE, args, kw) EXCEPT !.task_id = 1])
    /\ mw = 1
    /\ returned = None
    /\ found_exception = FALSE
    /\ result = NoResult
    /\ logOpen = FALSE
    /\ h = EmptyHist
    /\ flag = FALSE
    /\ hstack = << >>
    /\ tasks = [pending |-> 0, returned |-> 0, raised |-> 0]
    /\ proc = "running"
    /\ exitcode = 0
    /\ exitCalls = 0
    /\ cancelled = [worker |-> FALSE, shutdown |-> 0]

SpecParse == ParseInit /\ [][RunParse]_vars

\* ------------------------------------------------------------------ claims
\* h describes the message of the current iteration, message, once one was
\* received (idx >= 1).
Known == message.task_name \in DOMAIN available_tasks
Decodable == message.decodable
\* The iteration of the current message is over: the loop is back at the
\* async for, or the coroutine has ended.
IterationOver == idx >= 1 /\ pc \in { "recv", "done", "crashed" }
\* No hook, no handler and no set_result was called for the current message.
NoCalls ==
    /\ h.preIn = << >> /\ h.runMsg = << >> /\ h.callArgs = << >>
    /\ h.errLog = << >> /\ h.postLog = << >> /\ h.setLog = << >>
\* The sequence 1, 2, ..., n.
UpTo(n) == [i \in 1 .. n |-> i]

\* C1: whatever signals are delivered, nested ones included, broker.shutdown()
\* is scheduled at most once and sys.exit is called at most once, and a process
\* that has exited went through exactly one of each.
C1_OneTeardownOneExit ==
    /\ Scheduled <= 1
    /\ exitCalls <= 1
    /\ proc = "exited" => (Scheduled = 1 /\ exitCalls = 1)

\* C2: no failure while one message is processed ends async_listen_messages:
\* the coroutine is never left by an exception.
C2_LoopSurvivesMessageErrors == pc # "crashed"

\* C3: run_task never raises to its caller: once the handler has returned or
\* raised an Exception, no on_error hook makes run_task end by an exception.
C3_RunTaskNeverRaises == h.fail # "on_error"

\* C4: when the iteration of a message is over, exactly one TaskiqResult was
\* produced for it if its task is known and it decodes, and otherwise none,
\* with no handler call and no set_result call.
C4_OneResultPerKnownMessage ==
    IterationOver =>
        IF Known /\ Decodable
        THEN Len(h.results) = 1
        ELSE h.results = << >> /\ h.callArgs = << >> /\ h.setLog = << >>

\* C5: for a message whose task_name is not in broker.available_tasks nothing
\* is called (no hook, no handler, no set_result), and the step that finds the
\* task unknown takes the loop back to the async for, which then yields the
\* next message of the stream.
C5_UnknownTaskSkipped ==
    /\ []((idx >= 1 /\ ~Known) => (NoCalls /\ pc \in { "lookup", "recv", "done" }))
    /\ [][(pc = "lookup" /\ ~Known /\ pc' # pc) => (pc' = "recv" /\ h' = h)]_vars
    /\ [][(pc = "recv" /\ idx >= 1 /\ ~Known /\ pc' = "lookup")
             => (idx' = idx + 1 /\ h'.prev = "unknown")]_vars

\* C5 witness: the message after one with an unknown task went through the
\* whole pipeline, its result stored.
C5_Witness == idx = 2 /\ h.prev = "unknown" /\ h.setDone = << "stored" >>

\* C6: when broker.formatter.loads raises for a message nothing is called for
\* that message (no hook, no handler, no set_result), and the failing step
\* takes the loop back to the async for, which then yields the next message.
C6_DecodeErrorSkipped ==
    /\ []((idx >= 1 /\ Known /\ ~Decodable) =>
             (NoCalls /\ pc \in { "lookup", "decode", "recv", "done" }))
    /\ [][(pc = "decode" /\ ~Decodable /\ pc' # pc) => (pc' = "recv" /\ h' = h)]_vars
    /\ [][(pc = "recv" /\ idx >= 1 /\ Known /\ ~Decodable /\ pc' = "lookup")
             => (idx' = idx + 1 /\ h'.prev = "undecodable")]_vars

\* C6 witness: the message after one that failed to decode went through the
\* whole pipeline, its result stored.
C6_Witness == idx = 2 /\ h.prev = "undecodable" /\ h.setDone = << "stored" >>

\* C7: the result run_task builds has is_err true exactly when the handler
\* raised; its return_value is None when the handler raised and the value the
\* handler returned otherwise.
C7_IsErrIffHandlerRaised ==
    /\ Len(h.results) <= Len(h.outcome)
    /\ \A i \in DOMAIN h.results :
          /\ h.results[i].is_err = h.outcome[i].raised
          /\ h.results[i].return_value =
                IF h.outcome[i].raised THEN None ELSE h.outcome[i].value
    /\ (result.made /\ h.results # << >>) => result = h.results[Len(h.results)]

\* C7 witness: the handler raised and the result was persisted.
C7_Witness ==
    /\ h.outcome = << [raised |-> TRUE, value |-> None] >>
    /\ h.setLog # << >> /\ h.setLog[1].result.is_err

\* C8: when the handler of a known, decodable message raised an Exception,
\* the iteration ends with the exception kept inside run_task, the on_error
\* hook of every middleware called, and one set_result call with the message's
\* task_id and a result whose is_err is true.
C8_HandlerErrorPersisted ==
    (IterationOver /\ h.outcome # << >> /\ h.outcome[1].raised /\ h.fail # "handler") =>
        /\ pc # "crashed"
        /\ [i \in DOMAIN h.errLog |-> h.errLog[i].mw] = UpTo(NumMiddlewares)
        /\ Len(h.setLog) = 1
        /\ h.setLog[1].task_id = message.task_id
        /\ h.setLog[1].result.is_err

\* C9: when set_result raises, the loop goes back to the async for (it does
\* not end), nothing more is called for the message, and the next message is
\* received; no message has its handler or set_result called twice.
C9_SetResultErrorSwallowed ==
    /\ [](Len(h.callArgs) <= 1 /\ Len(h.setLog) <= 1)
    /\ [][(pc = "set_await" /\ h'.setDone = Append(h.setDone, "raised"))
             => (pc' = "recv" /\ idx' = idx /\ h'.callArgs = h.callArgs
                 /\ h'.setLog = h.setLog)]_vars
    /\ [][(pc = "recv" /\ h.setDone = << "raised" >> /\ pc' # pc)
             => (pc' = "done" \/ (pc' = "lookup" /\ idx' = idx + 1
                                  /\ h'.prev = "unstored" /\ h'.callArgs = << >>))]_vars

\* C9 witness: the message after one whose set_result raised reached its own
\* set_result call.
C9_Witness == idx = 2 /\ h.prev = "unstored" /\ h.setLog # << >>

C11_OneMessageAtATime ==
    /\ idx >= 1 => message.task_id = idx
    /\ h.prev # "open"
    /\ Len(h.setLog) <= 1
    /\ \A i \in DOMAIN h.setLog : h.setLog[i].task_id = idx
    /\ pc \notin { "recv", "lookup", "decode", "done" } => taskiq_msg.task_id = idx

\* The second message's set_result is called after the first message's
\* set_result was awaited to its end.
C11_Witness ==
    /\ idx = 2 /\ h.prev = "stored" /\ pc = "set_await"
    /\ h.setLog # << >> /\ h.setLog[1].task_id = 2

C13_CancelAfterTeardown ==
    /\ proc = "running" => cancelled = [worker |-> FALSE, shutdown |-> 0]
    /\ (cancelled.worker \/ cancelled.shutdown > 0) =>
          /\ tasks.returned + tasks.raised > 0
          /\ proc = "exited"
    /\ proc = "exited" => cancelled = all_tasks

\* A handler was in flight when the teardown task completed: it is
\* cancelled by exit_process, and was not before.
C13_Witness ==
    /\ proc = "exited" /\ pc = "running" /\ cancelled.worker
    /\ tasks.returned = 1 /\ tasks.pending = 0

\* The invocation parse_params was given and the one it left, once it has
\* run, and the parameters of the signature it was given.
ParseDone == pc = "open_log" /\ h.runMsg # << >>
Before == h.runMsg[1]
After == taskiq_msg
Params == available_tasks[message.task_name]
\* The argument bound to parameter i of the signature in invocation m: the
\* positional argument at index i, else the keyword argument under its name.
Bound(m, i) == IF i <= Len(m.args) THEN m.args[i] ELSE m.kwargs[Params[i].name]

\* C14: parse_params leaves untouched the argument bound to each parameter
\* that has no declared type: the positional argument at the parameter's
\* signature index and the keyword argument under the parameter's name are
\* the same before and after.
C14_UntypedUntouched ==
    ParseDone =>
        \A i \in DOMAIN Params :
            Params[i].annot = "empty" =>
                /\ i <= Len(Before.args) => After.args[i] = Before.args[i]
                /\ After.kwargs[Params[i].name] = Before.kwargs[Params[i].name]

\* C15: after parse_params the argument bound to each typed parameter is
\* the converted value when the original is convertible to the declared
\* type, and the original value when it is not.
C15_TypedConverted ==
    ParseDone =>
        \A i \in DOMAIN Params :
            Params[i].annot # "empty" =>
                Bound(After, i) =
                    IF CanParse(Params[i].annot, Bound(Before, i))
                    THEN parse_obj_as(Params[i].annot, Bound(Before, i))
                    ELSE Bound(Before, i)

\* The invocation the last pre_execute hook returned (the decoded message
\* when there is no middleware), once run_task was entered.
LastPreOut == IF h.preOut = << >> THEN h.runMsg[1] ELSE h.preOut[Len(h.preOut)]

\* C16: with no_parse set, coercion changes nothing: the invocation that
\* parse_params leaves, and the args and kwargs the handler is called with,
\* are exactly those of the invocation the last pre_execute hook returned.
C16_NoParseBypass ==
    (no_parse /\ h.runMsg # << >>) =>
        /\ Len(h.preOut) = NumMiddlewares
        /\ taskiq_msg = LastPreOut
        /\ \A i \in DOMAIN h.callArgs :
              /\ h.callArgs[i].args = LastPreOut.args
              /\ h.callArgs[i].kwargs = LastPreOut.kwargs

\* With no_parse set the handler of a task with a typed parameter was called
\* with the strings of the message; a parameter's type would have had "5"
\* converted.
C16_Witness ==
    /\ no_parse /\ h.callArgs # << >> /\ message.task_name = "mixed"
    /\ h.callArgs[1].args = << StrV("5"), StrV("x") >>
    /\ h.preOut # << >> /\ h.preOut[Len(h.preOut)].labels # << >>

\* C17: the phases of a message come in order, each one after the one before
\* it has completed: every pre_execute hook, then coercion, then the handler
\* call, then every on_error hook (only if the handler raised), then every
\* post_execute hook, then set_result; each post_execute hook is given the
\* invocation the handler was called with and the result that set_result is
\* then given.
C17_PhaseOrder ==
    /\ h.runMsg # << >> => (Len(h.preIn) = NumMiddlewares /\ Len(h.preOut) = NumMiddlewares)
    /\ h.callArgs # << >> => (h.runMsg # << >> /\ Len(h.callArgs) = 1)
    /\ h.outcome # << >> => h.callArgs # << >>
    /\ h.results # << >> => (h.outcome # << >> /\ Len(h.results) = 1)
    /\ h.errLog # << >> => (h.results # << >> /\ h.outcome[1].raised)
    /\ h.postLog # << >> =>
          /\ h.results # << >>
          /\ h.errDone = IF h.outcome[1].raised THEN UpTo(NumMiddlewares) ELSE << >>
          /\ Len(h.errLog) = Len(h.errDone)
    /\ Len(h.postDone) <= Len(h.postLog) /\ Len(h.postLog) <= Len(h.postDone) + 1
    /\ Len(h.postLog) <= NumMiddlewares
    /\ \A i \in DOMAIN h.postLog :
          /\ h.postLog[i].mw = i
          /\ h.postLog[i].msg = parse_params(Signature(message.task_name), h.runMsg[1])
          /\ h.postLog[i].msg.args = h.callArgs[1].args
          /\ h.postLog[i].msg.kwargs = h.callArgs[1].kwargs
          /\ h.postLog[i].result = h.results[1]
    /\ h.setLog # << >> =>
          /\ h.results # << >>
          /\ h.postDone = UpTo(NumMiddlewares)
          /\ h.errLog # << >> <=> (h.outcome[1].raised /\ NumMiddlewares > 0)
          /\ h.setLog[1].result = h.results[1]
          /\ \A i \in DOMAIN h.postLog : h.postLog[i].result = h.setLog[1].result

\* The handler raised, every on_error hook and then every post_execute hook
\* has completed, and set_result is being awaited with the result they got.
C17_Witness ==
    /\ pc = "set_await" /\ h.setLog # << >>
    /\ h.outcome # << >> /\ h.outcome[1].raised
    /\ h.errDone = UpTo(NumMiddlewares)
    /\ h.postDone = UpTo(NumMiddlewares)
    /\ h.postLog[NumMiddlewares].result.is_err

\* C18: if the event loop keeps getting to run (the worker task comes to an
\* await and no signal handler is in progress, again and again), then once
\* a broker.shutdown() task has completed, by returning or by raising, the
\* process eventually exits, wherever the worker loop stands.
C18_EventuallyExits ==
    ([]<>(proc = "running" => LoopRuns)) =>
        ((tasks.returned + tasks.raised > 0) ~> (proc = "exited"))

\* The teardown task raised while a post_execute hook was awaited, and the
\* process has exited.
C18_Witness ==
    /\ proc = "exited" /\ exitCalls = 1 /\ flag
    /\ pc = "post_await" /\ tasks.raised = 1

\* C19 as stated: a log-capture scope is open exactly while the handler is
\* executing; in every state where no handler is executing none is open.
C19_OpenOnlyDuringHandler == logOpen <=> pc = "running"

\* C19, amended: the scope is opened after coercion, the handler starts and
\* runs with it open, and it is closed on every exit path of the handler
\* call, before the result is built and before any on_error hook,
\* post_execute hook or set_result; it is open only inside the with
\* statement of run_task, that is while the handler runs, just before it
\* starts, and after it ended while run_task handles its Exception and takes
\* the execution time. At every await but the handler's, and once the loop
\* has ended, no scope is open.
C19_ScopeAroundHandler ==
    /\ logOpen => pc \in { "call", "running", "close_log" }
    /\ pc = "running" => logOpen
    /\ (logOpen /\ pc \in SuspendPcs) => pc = "running"
    /\ \A i \in DOMAIN h.callArgs : h.callArgs[i].log
    /\ logOpen =>
          /\ h.runMsg # << >>
          /\ h.results = << >> /\ h.errLog = << >>
          /\ h.postLog = << >> /\ h.setLog = << >>
    /\ pc = "close_log" => (logOpen /\ h.outcome # << >>)

\* The handler ran with the scope open and raised an Exception; the scope is
\* closed and the result is about to be built.
C19_Witness ==
    /\ pc = "build" /\ found_exception /\ ~logOpen
    /\ h.callArgs # << >> /\ h.callArgs[1].log

\* A signal handler invocation makes its check of the flag, in this step.
HandlerChecks == hstack # << >> /\ Top = "check" /\ Len(hstack') <= Len(hstack) /\ hstack' # hstack

\* C20: the shutdown state only moves forward: no step clears
\* _is_shutting_down once it is set, and a signal handler that finds the
\* flag set only returns: it schedules nothing and changes nothing else.
C20_FlagOnlyForward ==
    [][ /\ flag => flag'
        /\ Scheduled' >= Scheduled
        /\ (flag /\ HandlerChecks) =>
              /\ hstack' = Pop
              /\ UNCHANGED << flag, tasks, proc, exitcode, exitCalls, cancelled >>
              /\ UNCHANGED workerVars ]_vars

\* A signal was delivered after the flag was set and broker.shutdown() was
\* scheduled; its handler is about to check the flag.
C20_Witness ==
    /\ flag /\ hstack = << "check" >> /\ Scheduled = 1 /\ proc = "running"
====
